---- MODULE Spec2Model ----
(***************************************************************************)
(* Topic detection and code mapping (server/python-tools/topic_detector.py) *)
(*                                                                         *)
(* A text (a label, a keyword, a representative term) is a sequence of     *)
(* one-character strings, so that lowercasing, joining and substring tests  *)
(* are computed character by character.  Topic codes and message texts are  *)
(* never inspected by the program and stay atomic strings.                 *)
(*                                                                         *)
(* The other scripts of the repository follow, each with a specification   *)
(* of its own: stream_graph, embed_text, the Graphiti API service,         *)
(* _simple_chunk, ConversationSplitter.split and the command runners.      *)
(***************************************************************************)
EXTENDS Integers, Sequences, FiniteSets, TLC

VARIABLES
    messages,   \* the message list handed to fit_and_detect
    fit,        \* what the clusterer answers for these texts when it is invoked
    result,     \* the dict the last fit_and_detect call returned, or NoResult
    is_fitted,  \* TopicDetector.is_fitted
    mapcall,    \* the last direct call of _map_to_code: [label, code], or NoCall
    log,        \* the model constructions and adapter invocations so far, in order
    calls,      \* the number of fit_and_detect calls made on the detector
    env,        \* whether the model backend loads, whether encode accepts the items
    proc,       \* the command-line process: its argument, its output, its exit status
    invocations,\* the topic_detector processes in flight at once
    graph,      \* a stream_graph call of langgraph_runner.py
    embed,      \* an embed_text call of nlp_runner.py
    api,        \* a request to the Graphiti API service and its response
    chunker,    \* the loop of UnstructuredParser._simple_chunk
    splitter,   \* a ConversationSplitter.split call and the files it wrote
    runner      \* a command runner process: its script, its arguments, its outcome

toolVars == <<invocations, graph, embed, api, chunker, splitter, runner>>

vars == <<messages, fit, result, is_fitted, mapcall, log, calls, env, proc,
          invocations, graph, embed, api, chunker, splitter, runner>>

\* the value of a component's variable in the runs that do not exercise it
Idle == "idle"

ToolsIdle ==
    /\ invocations = Idle
    /\ graph = Idle
    /\ embed = Idle
    /\ api = Idle
    /\ chunker = Idle
    /\ splitter = Idle
    /\ runner = Idle

----------------------------------------------------------------------------
(* Bounds of the model *)

MaxMsgs == 4

\* calls made on one detector, and the longest batch of such a run
MaxCalls == 2
MaxCallMsgs == 3

\* the longest array given on the command line
MaxArgvItems == 2

\* message texts: the detector never reads them, only the embedder does
Texts == {"Rent payment due", "x"}

\* cluster ids the clusterer may assign; OUTLIER is BERTopic's -1
OUTLIER == -1
ClusterIds == {0, 1}

w_kailah   == <<"k", "a", "i", "l", "a", "h">>
w_school   == <<"s", "c", "h", "o", "o", "l">>
w_daughter == <<"d", "a", "u", "g", "h", "t", "e", "r">>
w_rent     == <<"r", "e", "n", "t">>
w_payment  == <<"p", "a", "y", "m", "e", "n", "t">>
w_teacher  == <<"t", "e", "a", "c", "h", "e", "r">>
w_bills    == <<"b", "i", "l", "l", "s">>
w_recall   == <<"r", "e", "c", "a", "l", "l">>
w_xyz      == <<"x", "y", "z">>
w_School   == <<"S", "c", "h", "o", "o", "l">>
w_KAILAH   == <<"K", "A", "I", "L", "A", "H">>
w_empty    == << >>

\* ranked term lists get_topic may return for a cluster (scores left out:
\* the program discards them)
TermLists ==
    { << >>,
      <<w_kailah, w_school, w_daughter>>,
      <<w_rent, w_payment>>,
      <<w_recall>>,
      <<w_xyz, w_empty>>,
      <<w_xyz, w_School, w_xyz, w_kailah>>,
      <<w_bills, w_teacher, w_school, w_rent>> }

----------------------------------------------------------------------------
(* TOPIC_MAPPING, in definition order *)

TOPIC_MAPPING == <<
    [keyword |-> <<"k", "a", "i", "l", "a", "h">>, code |-> "KAILAH"],
    [keyword |-> <<"d", "a", "u", "g", "h", "t", "e", "r">>, code |-> "KAILAH"],
    [keyword |-> <<"c", "h", "i", "l", "d">>, code |-> "KAILAH"],
    [keyword |-> <<"b", "a", "b", "y">>, code |-> "KAILAH"],
    [keyword |-> <<"p", "a", "r", "e", "n", "t", "i", "n", "g">>, code |-> "VISITS"],
    [keyword |-> <<"c", "u", "s", "t", "o", "d", "y">>, code |-> "VISITS"],
    [keyword |-> <<"v", "i", "s", "i", "t", "a", "t", "i", "o", "n">>, code |-> "VISITS"],
    [keyword |-> <<"v", "i", "s", "i", "t">>, code |-> "VISITS"],
    [keyword |-> <<"c", "a", "l", "l">>, code |-> "CALLS"],
    [keyword |-> <<"p", "h", "o", "n", "e">>, code |-> "CALLS"],
    [keyword |-> <<"c", "o", "n", "t", "a", "c", "t">>, code |-> "CALLS"],
    [keyword |-> <<"s", "c", "h", "o", "o", "l">>, code |-> "SCHOOL"],
    [keyword |-> <<"e", "d", "u", "c", "a", "t", "i", "o", "n">>, code |-> "SCHOOL"],
    [keyword |-> <<"t", "e", "a", "c", "h", "e", "r">>, code |-> "SCHOOL"],
    [keyword |-> <<"m", "o", "n", "e", "y">>, code |-> "MONEY"],
    [keyword |-> <<"f", "i", "n", "a", "n", "c", "i", "a", "l">>, code |-> "MONEY"],
    [keyword |-> <<"b", "i", "l", "l", "s">>, code |-> "MONEY"],
    [keyword |-> <<"r", "e", "n", "t">>, code |-> "MONEY"],
    [keyword |-> <<"p", "a", "y", "m", "e", "n", "t">>, code |-> "MONEY"],
    [keyword |-> <<"h", "e", "a", "l", "t", "h">>, code |-> "HEALTH"],
    [keyword |-> <<"m", "e", "d", "i", "c", "a", "l">>, code |-> "HEALTH"],
    [keyword |-> <<"d", "o", "c", "t", "o", "r">>, code |-> "HEALTH"],
    [keyword |-> <<"h", "o", "s", "p", "i", "t", "a", "l">>, code |-> "HEALTH"],
    [keyword |-> <<"m", "e", "d", "i", "c", "a", "t", "i", "o", "n">>, code |-> "HEALTH"],
    [keyword |-> <<"a", "l", "c", "o", "h", "o", "l">>, code |-> "SUBST"],
    [keyword |-> <<"d", "r", "u", "g">>, code |-> "SUBST"],
    [keyword |-> <<"a", "d", "d", "e", "r", "a", "l", "l">>, code |-> "SUBST"],
    [keyword |-> <<"s", "u", "b", "s", "t", "a", "n", "c", "e">>, code |-> "SUBST"],
    [keyword |-> <<"d", "r", "u", "n", "k">>, code |-> "SUBST"],
    [keyword |-> <<"c", "h", "e", "a", "t">>, code |-> "INFID"],
    [keyword |-> <<"a", "f", "f", "a", "i", "r">>, code |-> "INFID"],
    [keyword |-> <<"i", "n", "f", "i", "d", "e", "l", "i", "t", "y">>, code |-> "INFID"],
    [keyword |-> <<"l", "o", "y", "a", "l">>, code |-> "INFID"],
    [keyword |-> <<"t", "h", "r", "e", "a", "t">>, code |-> "THREAT"],
    [keyword |-> <<"h", "u", "r", "t">>, code |-> "THREAT"],
    [keyword |-> <<"k", "i", "l", "l">>, code |-> "THREAT"],
    [keyword |-> <<"h", "a", "r", "m">>, code |-> "THREAT"]
>>

----------------------------------------------------------------------------
(* str.lower, str.join, the `in` operator on strings *)

Lower(c) ==
    CASE c = "A" -> "a" []
         c = "B" -> "b" []
         c = "C" -> "c" []
         c = "D" -> "d" []
         c = "E" -> "e" []
         c = "F" -> "f" []
         c = "G" -> "g" []
         c = "H" -> "h" []
         c = "I" -> "i" []
         c = "J" -> "j" []
         c = "K" -> "k" []
         c = "L" -> "l" []
         c = "M" -> "m" []
         c = "N" -> "n" []
         c = "O" -> "o" []
         c = "P" -> "p" []
         c = "Q" -> "q" []
         c = "R" -> "r" []
         c = "S" -> "s" []
         c = "T" -> "t" []
         c = "U" -> "u" []
         c = "V" -> "v" []
         c = "W" -> "w" []
         c = "X" -> "x" []
         c = "Y" -> "y" []
         c = "Z" -> "z" []
         OTHER -> c

LowerStr(s) == [i \in 1..Len(s) |-> Lower(s[i])]

\* a word-boundary match: keyword is one of the "_"-separated words of label
IsWholeWord(keyword, label) ==
    \E off \in 0..(Len(label) - Len(keyword)) :
        /\ SubSeq(label, off + 1, off + Len(keyword)) = keyword
        /\ (off = 0 \/ label[off] = "_")
        /\ (off + Len(keyword) = Len(label) \/ label[off + Len(keyword) + 1] = "_")

\* keyword in label: keyword occurs at some offset of label
IsSubstring(keyword, label) ==
    \E off \in 0..(Len(label) - Len(keyword)) :
        SubSeq(label, off + 1, off + Len(keyword)) = keyword

\* ' '.join in place of '_'.join
RECURSIVE JoinTermsSpace(_)
JoinTermsSpace(words) ==
    IF words = << >> THEN << >>
    ELSE IF Len(words) = 1 THEN words[1]
    ELSE words[1] \o <<" ">> \o JoinTermsSpace(Tail(words))

RECURSIVE JoinTerms(_)
JoinTerms(words) ==
    IF words = << >> THEN << >>
    ELSE IF Len(words) = 1 THEN words[1]
    ELSE words[1] \o <<"_">> \o JoinTerms(Tail(words))

\* topic_words[:2] in place of topic_words[:3]
TopTwoWords(topic_words) ==
    SubSeq(topic_words, 1, IF Len(topic_words) < 2 THEN Len(topic_words) ELSE 2)

\* topic_words[:3]
TopWords(topic_words) ==
    SubSeq(topic_words, 1, IF Len(topic_words) < 3 THEN Len(topic_words) ELSE 3)

TopicLabel(topic_words) == JoinTerms(TopWords(topic_words))

----------------------------------------------------------------------------
(* TopicDetector._map_to_code *)

\* the default spelled 'GENERAL'
RECURSIVE ScanMappingDefaultTypo(_, _)
ScanMappingDefaultTypo(label_lower, i) ==
    IF i > Len(TOPIC_MAPPING) THEN "GENERAL"
    ELSE IF IsSubstring(TOPIC_MAPPING[i].keyword, label_lower)
         THEN TOPIC_MAPPING[i].code
         ELSE ScanMappingDefaultTypo(label_lower, i + 1)

\* `return code` after the loop: the code of the last entry, not the default
RECURSIVE ScanMappingFallThrough(_, _)
ScanMappingFallThrough(label_lower, i) ==
    IF i > Len(TOPIC_MAPPING) THEN TOPIC_MAPPING[Len(TOPIC_MAPPING)].code
    ELSE IF IsSubstring(TOPIC_MAPPING[i].keyword, label_lower)
         THEN TOPIC_MAPPING[i].code
         ELSE ScanMappingFallThrough(label_lower, i + 1)

RECURSIVE ScanMapping(_, _)
ScanMapping(label_lower, i) ==
    IF i > Len(TOPIC_MAPPING) THEN "GENRL"
    ELSE IF IsSubstring(TOPIC_MAPPING[i].keyword, label_lower)
         THEN TOPIC_MAPPING[i].code
         ELSE ScanMapping(label_lower, i + 1)

\* the scan run on the label as given, without label.lower()
MapToCodeNoLower(label) == ScanMapping(label, 1)

MapToCode(label) == ScanMapping(LowerStr(label), 1)

----------------------------------------------------------------------------
(* the collaborators *)

\* embedding_model.encode: one vector per text, in order
EmbedVec(text) == IF text = "x" THEN <<0, 1>> ELSE <<1, 0>>

Encode(texts) == [i \in 1..Len(texts) |-> EmbedVec(texts[i])]

Range(f) == {f[x] : x \in DOMAIN f}

\* topic_model.fit_transform / get_topic: one cluster id per text, and a
\* ranked term list for every cluster it formed
FitOutcomes(texts) ==
    UNION { { [topics |-> t, words |-> w] :
                w \in [Range(t) \ {OUTLIER} -> TermLists] } :
            t \in [1..Len(texts) -> ClusterIds \cup {OUTLIER}] }

\* fit_transform raising instead of answering
FitRaises == [topics |-> << >>, words |-> << >>, raises |-> TRUE]

Raises(f) == "raises" \in DOMAIN f

ClustererAnswers(texts) == FitOutcomes(texts) \cup {FitRaises}

\* topic_model.get_topic_info: one row per topic of the fitted model
TopicInfoRows(f) == Range(f.topics)

----------------------------------------------------------------------------
(* TopicDetector.fit_and_detect *)

NoResult == [none |-> TRUE]
NoCall == [none |-> TRUE]

\* `< 1` in place of `< 2`
TooFewOffByOne(msgs) == Len(msgs) < 1

TooFew(msgs) == Len(msgs) < 2

\* topic_model.get_topic: the cluster's ranked terms, falsy when it has none
GetTopic(f, topic_id) ==
    IF topic_id \in DOMAIN f.words THEN f.words[topic_id] ELSE << >>

\* the loop without `if topic_words:`: a cluster without terms is labelled ''
TopicLabelsNoEmptyCheck(f) ==
    [c \in {r \in TopicInfoRows(f) : r # OUTLIER} |-> TopicLabel(GetTopic(f, c))]

\* lines 100-110: the labels of the clusters get_topic has terms for
TopicLabels(f) ==
    [c \in {r \in TopicInfoRows(f) : r # OUTLIER /\ GetTopic(f, r) # << >>}
        |-> TopicLabel(GetTopic(f, c))]

\* topic_labels.get(topic_id, label): the default is the variable the
\* labelling loop last assigned, the label of the last labelled cluster
LabelOfStale(topic_labels, topic_id) ==
    IF topic_id \in DOMAIN topic_labels THEN topic_labels[topic_id]
    ELSE IF DOMAIN topic_labels = {} THEN << >>
    ELSE topic_labels[CHOOSE c \in DOMAIN topic_labels :
                         \A d \in DOMAIN topic_labels : d <= c]

\* topic_labels.get(topic_id, '')
LabelOf(topic_labels, topic_id) ==
    IF topic_id \in DOMAIN topic_labels THEN topic_labels[topic_id] ELSE << >>

\* the loop with `continue` for an outlier: nothing is appended for it
TopicCodesSkipOutliers(topics, topic_labels) ==
    LET kept == SelectSeq(topics, LAMBDA t : t # OUTLIER)
    IN  [i \in 1..Len(kept) |-> MapToCode(LabelOf(topic_labels, kept[i]))]

\* the loop appending a stale `code` for an outlier: the code of the
\* nearest earlier clustered message, 'GENRL' when there is none
RECURSIVE StaleCode(_, _, _)
StaleCode(topics, topic_labels, i) ==
    IF i = 0 THEN "GENRL"
    ELSE IF topics[i] # OUTLIER THEN MapToCode(LabelOf(topic_labels, topics[i]))
    ELSE StaleCode(topics, topic_labels, i - 1)

TopicCodesStale(topics, topic_labels) ==
    [i \in 1..Len(topics) |-> StaleCode(topics, topic_labels, i)]

\* every message coded by the cluster of the first message
TopicCodesOfFirst(topics, topic_labels) ==
    [i \in 1..Len(topics) |->
        IF topics[1] = OUTLIER THEN "GENRL"
        ELSE MapToCode(LabelOf(topic_labels, topics[1]))]

\* lines 113-120
TopicCodes(topics, topic_labels) ==
    [i \in 1..Len(topics) |->
        IF topics[i] = OUTLIER THEN "GENRL"
        ELSE MapToCode(LabelOf(topic_labels, topics[i]))]

Repeat(x, n) == [i \in 1..n |-> x]

\* a fitted detector taking the short path: the fit skipped once is_fitted
DetectSkipWhenFitted(msgs, f) ==
    IF TooFew(msgs) \/ is_fitted
    THEN [topics       |-> Repeat(OUTLIER, Len(msgs)),
          topic_labels |-> << >>,
          topic_codes  |-> Repeat("GENRL", Len(msgs)),
          embeddings   |-> Encode(msgs)]
    ELSE [topics       |-> f.topics,
          topic_labels |-> TopicLabels(f),
          topic_codes  |-> TopicCodes(f.topics, TopicLabels(f)),
          embeddings   |-> Encode(msgs)]

\* embeddings kept for the clustered messages only, zeros for the outliers
DetectEmbedClustered(msgs, f) ==
    IF TooFew(msgs)
    THEN [topics       |-> Repeat(OUTLIER, Len(msgs)),
          topic_labels |-> << >>,
          topic_codes  |-> Repeat("GENRL", Len(msgs)),
          embeddings   |-> Encode(msgs)]
    ELSE [topics       |-> f.topics,
          topic_labels |-> TopicLabels(f),
          topic_codes  |-> TopicCodes(f.topics, TopicLabels(f)),
          embeddings   |-> [i \in 1..Len(msgs) |->
                              IF f.topics[i] = OUTLIER THEN <<0, 0>>
                              ELSE EmbedVec(msgs[i])]]

Detect(msgs, f) ==
    IF TooFew(msgs)
    THEN [topics       |-> Repeat(OUTLIER, Len(msgs)),
          topic_labels |-> << >>,
          topic_codes  |-> Repeat("GENRL", Len(msgs)),
          embeddings   |-> Encode(msgs)]
    ELSE [topics       |-> f.topics,
          topic_labels |-> TopicLabels(f),
          topic_codes  |-> TopicCodes(f.topics, TopicLabels(f)),
          embeddings   |-> Encode(msgs)]

\* an exception that left fit_and_detect, by the call that raised it
Exception(from) == [exception |-> from]

Event(op, texts) == [op |-> op, texts |-> texts]

\* TopicDetector.__init__: the embedder, then the clusterer
Constructed == <<Event("SentenceTransformer", << >>), Event("BERTopic", << >>)>>

\* a fresh BERTopic built inside every call that fits
CallEventsRebuild(msgs, f) ==
    IF TooFew(msgs) THEN <<Event("encode", msgs)>>
    ELSE IF Raises(f) THEN <<Event("BERTopic", << >>), Event("fit_transform", msgs)>>
    ELSE <<Event("BERTopic", << >>), Event("fit_transform", msgs), Event("encode", msgs)>>

\* `if not self.is_fitted:` around the fit: a fitted detector does not fit again
CallEventsSkipWhenFitted(msgs, f) ==
    IF TooFew(msgs) \/ is_fitted THEN <<Event("encode", msgs)>>
    ELSE IF Raises(f) THEN <<Event("fit_transform", msgs)>>
    ELSE <<Event("fit_transform", msgs), Event("encode", msgs)>>

\* the adapter invocations of one call, in order: fit_transform is not
\* reached by a short batch, encode is not reached when fit_transform raises
CallEvents(msgs, f) ==
    IF TooFew(msgs) THEN <<Event("encode", msgs)>>
    ELSE IF Raises(f) THEN <<Event("fit_transform", msgs)>>
    ELSE <<Event("fit_transform", msgs), Event("encode", msgs)>>

\* fit_transform wrapped in try/except: a failed fit answered with the dict
\* of a batch that was not clustered
CallResultFallback(msgs, f, e) ==
    IF e.encode_raises THEN Exception("encode")
    ELSE IF ~TooFew(msgs) /\ Raises(f)
    THEN [topics       |-> Repeat(OUTLIER, Len(msgs)),
          topic_labels |-> << >>,
          topic_codes  |-> Repeat("GENRL", Len(msgs)),
          embeddings   |-> Encode(msgs)]
    ELSE Detect(msgs, f)

\* what the call hands back: the dict, or the exception that ended it
CallResult(msgs, f, e) ==
    IF ~TooFew(msgs) /\ Raises(f) THEN Exception("fit_transform")
    ELSE IF e.encode_raises THEN Exception("encode")
    ELSE Detect(msgs, f)

\* is_fitted assigned from the outcome of this call alone
FittedAfterThisCall(msgs, f, fitted) == ~(TooFew(msgs) \/ Raises(f))

\* line 96 runs once fit_transform has returned, and nothing else sets it
FittedAfter(msgs, f, fitted) ==
    IF TooFew(msgs) \/ Raises(f) THEN fitted ELSE TRUE

MessageLists == UNION { [1..n -> Texts] : n \in 0..MaxMsgs }

EnvOk == [backend |-> "ok", encode_raises |-> FALSE]

NoProc == [none |-> TRUE]

\* a detector as its constructor leaves it, with the batch it will be given
\* and the clusterer's answer to that batch
Init ==
    /\ messages \in MessageLists
    /\ fit \in ClustererAnswers(messages)
    /\ result = NoResult
    /\ is_fitted = FALSE
    /\ mapcall = NoCall
    /\ log = Constructed
    /\ calls = 0
    /\ env = EnvOk
    /\ proc = NoProc
    /\ ToolsIdle

Call(msgs, f) ==
    /\ messages' = msgs
    /\ fit' = f
    /\ result' = CallResult(msgs, f, env)
    /\ is_fitted' = FittedAfter(msgs, f, is_fitted)
    /\ log' = log \o CallEvents(msgs, f)
    /\ calls' = calls + 1
    /\ UNCHANGED <<mapcall, env, proc>>
    /\ UNCHANGED toolVars

\* the first call on the detector
FitAndDetect ==
    /\ proc = NoProc
    /\ calls = 0
    /\ Call(messages, fit)

Next == FitAndDetect

Spec == Init /\ [][Next]_vars

----------------------------------------------------------------------------
(* one detector called several times *)

AllOutliers(n) == [topics |-> [i \in 1..n |-> OUTLIER], words |-> << >>]

\* the clusterer's answer cut down to the first n texts
RestrictFit(f, n) ==
    LET t == SubSeq(f.topics, 1, n)
    IN  [topics |-> t, words |-> [c \in Range(t) \ {OUTLIER} |-> f.words[c]]]

\* a later call is given the first n messages of the batch before; the
\* clusterer answers as before on those texts, or raises
LaterAnswers(f, n) ==
    {FitRaises} \cup (IF Raises(f) THEN {AllOutliers(n)} ELSE {RestrictFit(f, n)})

FitAndDetectAgain ==
    /\ proc = NoProc
    /\ calls >= 1
    /\ calls < MaxCalls
    /\ \E n \in 0..Len(messages) :
          \E f \in LaterAnswers(fit, n) :
              Call(SubSeq(messages, 1, n), f)

InitCalls == Init /\ Len(messages) <= MaxCallMsgs

NextCalls == FitAndDetect \/ FitAndDetectAgain

SpecCalls == InitCalls /\ [][NextCalls]_vars

----------------------------------------------------------------------------
(* main: the command-line process *)

\* an array element that json.loads does not decode to a str
NonStrings == {"<number 42>"}

Items == Texts \cup NonStrings

HasNonString(items) == \E i \in 1..Len(items) : items[i] \in NonStrings

\* sys.argv[1] by what json.loads makes of it
ArgvInputs ==
    {[given |-> FALSE, json |-> "none", items |-> << >>]}
    \cup {[given |-> TRUE, json |-> j, items |-> << >>] :
             j \in {"malformed", "object", "number", "string", "null"}}
    \cup {[given |-> TRUE, json |-> "array", items |-> l] :
             l \in UNION { [1..n -> Items] : n \in 0..MaxArgvItems }}

NoError == "none"

\* the input check left out: isinstance(messages, list)
InputErrorNoListCheck(argv) ==
    IF ~argv.given THEN "No messages provided"
    ELSE IF argv.json = "malformed" THEN "Invalid JSON"
    ELSE NoError

\* lines 149-162: the error main reports before it builds the detector
InputError(argv) ==
    IF ~argv.given THEN "No messages provided"
    ELSE IF argv.json = "malformed" THEN "Invalid JSON"
    ELSE IF argv.json # "array" THEN "Messages must be a list"
    ELSE NoError

\* the backend: importable and loading, importable but failing to load the
\* model in the constructor, or not importable at all
Backends == {"ok", "load_fails", "not_installed"}

Started(a) == [argv |-> a, stdout |-> << >>, exited |-> FALSE, exit_code |-> 0]

\* print(json.dumps(...)) then sys.exit(1), or the end of main
Exit(p, lines, code) ==
    [p EXCEPT !.stdout = lines, !.exited = TRUE, !.exit_code = code]

IsException(r) == "exception" \in DOMAIN r

\* a process about to run the script: its argument, the state of the
\* backend, the clusterer's answer to the decoded list, and whether encode
\* raises on a list that holds something other than strings
InitMain ==
    /\ proc \in {Started(a) : a \in ArgvInputs}
    /\ env \in {e \in [backend : Backends, encode_raises : BOOLEAN] :
                  e.encode_raises => (e.backend = "ok" /\ HasNonString(proc.argv.items))}
    /\ fit \in IF env.backend = "ok" /\ proc.argv.json = "array"
               THEN ClustererAnswers(proc.argv.items)
               ELSE {AllOutliers(Len(proc.argv.items))}
    /\ messages = << >>
    /\ result = NoResult
    /\ is_fitted = FALSE
    /\ mapcall = NoCall
    /\ log = << >>
    /\ calls = 0
    /\ ToolsIdle

\* lines 9-10: the imports at the top of the script fail, main is never run
ImportFails ==
    /\ proc # NoProc
    /\ ~proc.exited
    /\ env.backend = "not_installed"
    /\ proc' = Exit(proc, << >>, 1)
    /\ UNCHANGED <<messages, fit, result, is_fitted, mapcall, log, calls, env>>
    /\ UNCHANGED toolVars

\* main, from its first line to the exit of the process
Main ==
    /\ proc # NoProc
    /\ ~proc.exited
    /\ env.backend # "not_installed"
    /\ UNCHANGED <<fit, mapcall, env>>
    /\ UNCHANGED toolVars
    /\ IF InputError(proc.argv) # NoError
       THEN /\ proc' = Exit(proc, <<[error |-> InputError(proc.argv)]>>, 1)
            /\ UNCHANGED <<messages, result, is_fitted, log, calls>>
       ELSE IF env.backend = "load_fails"
       THEN \* line 57 raises inside TopicDetector()
            /\ log' = <<Event("SentenceTransformer", << >>)>>
            /\ proc' = Exit(proc, << >>, 1)
            /\ UNCHANGED <<messages, result, is_fitted, calls>>
       ELSE LET msgs == proc.argv.items
                r == CallResult(msgs, fit, env)
            IN  /\ messages' = msgs
                /\ log' = Constructed \o CallEvents(msgs, fit)
                /\ calls' = 1
                /\ is_fitted' = FittedAfter(msgs, fit, FALSE)
                /\ result' = r
                /\ proc' = IF IsException(r) THEN Exit(proc, << >>, 1)
                           ELSE Exit(proc, <<[result |-> r]>>, 0)

NextMain == Main \/ ImportFails

SpecMain == InitMain /\ [][NextMain]_vars

----------------------------------------------------------------------------
(* _map_to_code called on its own, over a bounded set of labels *)

\* words the labels are built from: keywords in both cases, a word that
\* holds a keyword inside it, a word that holds none
MapVocab == {w_school, w_teacher, w_bills, w_rent, w_recall, w_xyz, w_School, w_KAILAH}

MaxLabelWords == 3

Labels == { JoinTerms(ws) : ws \in UNION { [1..n -> MapVocab] : n \in 0..MaxLabelWords } }

Pending == "pending"

InitMap ==
    /\ messages = << >>
    /\ fit = [topics |-> << >>, words |-> << >>]
    /\ result = NoResult
    /\ is_fitted = FALSE
    /\ mapcall \in [label : Labels, code : {Pending}]
    /\ log = Constructed
    /\ calls = 0
    /\ env = EnvOk
    /\ proc = NoProc
    /\ ToolsIdle

MapToCodeCall ==
    /\ mapcall # NoCall
    /\ mapcall' = [mapcall EXCEPT !.code = MapToCode(mapcall.label)]
    /\ UNCHANGED <<messages, fit, result, is_fitted, log, calls, env, proc>>
    /\ UNCHANGED toolVars

NextMap == MapToCodeCall

SpecMap == InitMap /\ [][NextMap]_vars

----------------------------------------------------------------------------
(* Claims *)

\* a call has returned its dict
Returned == result # NoResult /\ "exception" \notin DOMAIN result
Mapped == mapcall # NoCall /\ mapcall.code # Pending

Min(S) == CHOOSE x \in S : \A y \in S : x <= y

\* the entries of TOPIC_MAPPING whose keyword occurs in the lowercased label
Hits(label) ==
    {i \in 1..Len(TOPIC_MAPPING) : IsSubstring(TOPIC_MAPPING[i].keyword, LowerStr(label))}

l_school_teacher_bills == <<"s", "c", "h", "o", "o", "l", "_", "t", "e", "a", "c", "h", "e", "r", "_", "b", "i", "l", "l", "s">>
l_bills_teacher_school == <<"b", "i", "l", "l", "s", "_", "t", "e", "a", "c", "h", "e", "r", "_", "s", "c", "h", "o", "o", "l">>
l_kailah_school_daughter == <<"k", "a", "i", "l", "a", "h", "_", "s", "c", "h", "o", "o", "l", "_", "d", "a", "u", "g", "h", "t", "e", "r">>
l_rent_payment == <<"r", "e", "n", "t", "_", "p", "a", "y", "m", "e", "n", "t">>

\* C1: a returned result has exactly one topic, one topic code and one
\* embedding per message, entry i being the one of messages[i].
C1_OnePerMessage ==
    Returned =>
        /\ DOMAIN result.topics = 1..Len(messages)
        /\ DOMAIN result.topic_codes = 1..Len(messages)
        /\ DOMAIN result.embeddings = 1..Len(messages)
        /\ \A i \in 1..Len(messages) :
              /\ result.embeddings[i] = EmbedVec(messages[i])
              /\ Len(messages) >= 2 => result.topics[i] = fit.topics[i]

C1_Witness ==
    /\ Returned
    /\ Len(messages) = MaxMsgs
    /\ \E i, j \in 1..Len(messages) :
          /\ result.topics[i] = OUTLIER
          /\ result.topics[j] # OUTLIER
          /\ messages[i] # messages[j]

\* C2: for a message list of length 0 or 1 the result has every topic -1,
\* every code GENRL, no labels, and the embedder's vector of each message.
C2_SmallBatch ==
    (Returned /\ Len(messages) < 2) =>
        /\ result.topics = [i \in 1..Len(messages) |-> -1]
        /\ result.topic_codes = [i \in 1..Len(messages) |-> "GENRL"]
        /\ DOMAIN result.topic_labels = {}
        /\ result.embeddings = [i \in 1..Len(messages) |-> EmbedVec(messages[i])]

C2_Witness ==
    /\ Returned
    /\ Len(messages) = 1
    /\ ~Raises(fit)
    /\ fit.topics[1] # OUTLIER
    /\ result.topics = <<-1>>

\* C3: _map_to_code returns the code of the earliest TOPIC_MAPPING entry
\* whose keyword occurs in the lowercased label, wherever it occurs and
\* whatever the label's case; school_teacher_bills and bills_teacher_school
\* both give SCHOOL.
C3_FirstDictionaryMatch ==
    Mapped =>
        /\ Hits(mapcall.label) # {} =>
              mapcall.code = TOPIC_MAPPING[Min(Hits(mapcall.label))].code
        /\ mapcall.label \in {l_school_teacher_bills, l_bills_teacher_school} =>
              mapcall.code = "SCHOOL"
        /\ mapcall.label = w_School => mapcall.code = "SCHOOL"
        /\ mapcall.label = w_KAILAH => mapcall.code = "KAILAH"

C3_Witness ==
    /\ Mapped
    /\ mapcall.label = l_bills_teacher_school
    /\ mapcall.code = "SCHOOL"

\* C4: a message whose cluster id is -1 has topic code GENRL, whatever the
\* other clusters of the call are labelled.
C4_OutlierIsGENRL ==
    Returned =>
        \A i \in 1..Len(result.topics) :
            result.topics[i] = OUTLIER => result.topic_codes[i] = "GENRL"

C4_Witness ==
    /\ Returned
    /\ \E i, j \in 1..Len(result.topics) :
          /\ j < i
          /\ result.topics[i] = OUTLIER
          /\ result.topic_codes[i] = "GENRL"
          /\ result.topic_codes[j] # "GENRL"

\* C5: four messages assigned [0,0,1,-1], cluster 0 with terms kailah,
\* school, daughter and cluster 1 with rent, payment, give topics
\* [0,0,1,-1], labels {0: kailah_school_daughter, 1: rent_payment} and
\* codes [KAILAH, KAILAH, MONEY, GENRL].
Scenario ==
    /\ Len(messages) = 4
    /\ fit.topics = <<0, 0, 1, -1>>
    /\ fit.words[0] = <<w_kailah, w_school, w_daughter>>
    /\ fit.words[1] = <<w_rent, w_payment>>

C5_EndToEnd ==
    (Returned /\ Scenario) =>
        /\ result.topics = <<0, 0, 1, -1>>
        /\ DOMAIN result.topic_labels = {0, 1}
        /\ result.topic_labels[0] = l_kailah_school_daughter
        /\ result.topic_labels[1] = l_rent_payment
        /\ result.topic_codes = <<"KAILAH", "KAILAH", "MONEY", "GENRL">>

C5_Witness == Returned /\ Scenario /\ result.topic_codes[3] = "MONEY"

\* C6: every topic code of a result is one of the ten codes.
TopicCodeSet ==
    {"KAILAH", "VISITS", "CALLS", "SCHOOL", "MONEY", "HEALTH", "SUBST", "INFID",
     "THREAT", "GENRL"}

C6_CodesInSet ==
    Returned => \A i \in 1..Len(result.topic_codes) : result.topic_codes[i] \in TopicCodeSet

C6_Witness ==
    /\ Returned
    /\ Len(messages) >= 2
    /\ \E i, j \in 1..Len(result.topic_codes) :
          /\ result.topic_codes[i] = "GENRL"
          /\ result.topics[i] # OUTLIER
          /\ result.topic_codes[j] = "CALLS"

\* C7: a label, the empty one included, that holds no TOPIC_MAPPING keyword
\* after lowercasing maps to GENRL.
C7_Fallback ==
    Mapped =>
        /\ Hits(mapcall.label) = {} => mapcall.code = "GENRL"
        /\ mapcall.label = << >> => mapcall.code = "GENRL"
        /\ mapcall.label = w_xyz => mapcall.code = "GENRL"

C7_Witness == Mapped /\ mapcall.label = << >> /\ mapcall.code = "GENRL"

\* C8: a keyword matches anywhere inside the label: "recall" holds "call"
\* only inside a longer word and maps to CALLS, as does every label in which
\* "call" occurs and none of the entries before it.
CallEntry == CHOOSE i \in 1..Len(TOPIC_MAPPING) : TOPIC_MAPPING[i].keyword = <<"c", "a", "l", "l">>

C8_SubstringAnywhere ==
    Mapped =>
        /\ mapcall.label = w_recall => mapcall.code = "CALLS"
        /\ (\E off \in 0..(Len(mapcall.label) - Len(w_recall)) :
                SubSeq(mapcall.label, off + 1, off + Len(w_recall)) = w_recall)
           /\ (\A i \in Hits(mapcall.label) : i >= CallEntry)
           => mapcall.code = "CALLS"

C8_Witness == Mapped /\ mapcall.label = w_recall /\ mapcall.code = "CALLS"

\* C9: a cluster's label is its first min(3, n) terms, in ranked order and
\* in the case given, with one underscore between neighbours.
RECURSIVE TotalLen(_, _)
TotalLen(words, k) == IF k = 0 THEN 0 ELSE TotalLen(words, k - 1) + Len(words[k])

\* label is words[1], "_", words[2], "_", ..., words[k]
IsJoinOf(label, words, k) ==
    /\ Len(label) = TotalLen(words, k) + (IF k = 0 THEN 0 ELSE k - 1)
    /\ \A j \in 1..k :
          LET off == TotalLen(words, j - 1) + (j - 1)
          IN  /\ SubSeq(label, off + 1, off + Len(words[j])) = words[j]
              /\ j < k => label[off + Len(words[j]) + 1] = "_"

C9_LabelIsTopThree ==
    (Returned /\ Len(messages) >= 2) =>
        \A c \in DOMAIN result.topic_labels :
            LET words == fit.words[c]
                k == IF Len(words) < 3 THEN Len(words) ELSE 3
            IN  IsJoinOf(result.topic_labels[c], words, k)

C9_Witness ==
    /\ Returned
    /\ Len(messages) >= 2
    /\ \E c, d \in DOMAIN result.topic_labels :
          /\ Len(fit.words[c]) > 3
          /\ Len(result.topic_labels[c]) = 14
          /\ result.topic_labels[c][5] = "S"
          /\ Len(fit.words[d]) = 2

\* C10 as stated: topic_labels has an entry for each cluster id other than
\* -1 that appears in topics, and none for -1.
C10_Original ==
    (Returned /\ Len(messages) >= 2) =>
        /\ \A c \in Range(result.topics) \ {OUTLIER} : c \in DOMAIN result.topic_labels
        /\ OUTLIER \notin DOMAIN result.topic_labels

\* C10 as amended: topic_labels has an entry for exactly the cluster ids
\* other than -1 that appear in topics and have at least one representative
\* term, and none for -1.
C10_LabelledClusters ==
    (Returned /\ Len(messages) >= 2) =>
        /\ DOMAIN result.topic_labels =
              {c \in Range(result.topics) \ {OUTLIER} : fit.words[c] # << >>}
        /\ OUTLIER \notin DOMAIN result.topic_labels

C10_Witness ==
    /\ Returned
    /\ Len(messages) >= 2
    /\ OUTLIER \in Range(result.topics)
    /\ \E c, d \in Range(result.topics) \ {OUTLIER} :
          /\ fit.words[c] = << >>
          /\ c \notin DOMAIN result.topic_labels
          /\ d \in DOMAIN result.topic_labels

----------------------------------------------------------------------------
(* Claims about main *)

Exited == proc # NoProc /\ proc.exited

\* main was entered: the imports at the top of the script succeeded
MainRan == Exited /\ env.backend # "not_installed"

PrintedError == Len(proc.stdout) = 1 /\ "error" \in DOMAIN proc.stdout[1]

PrintedResult == \E i \in 1..Len(proc.stdout) : "result" \in DOMAIN proc.stdout[i]

AdapterInvoked == \E i \in 1..Len(log) : log[i].op \in {"fit_transform", "encode"}

\* C11: with the argument missing, malformed or not an array, main prints a
\* JSON object with an error field and exits non-zero, prints no result,
\* and has neither built nor called a model by then.
C11_InvalidInputRejected ==
    (MainRan /\ (~proc.argv.given \/ proc.argv.json # "array")) =>
        /\ PrintedError
        /\ proc.exit_code # 0
        /\ ~PrintedResult
        /\ result = NoResult
        /\ log = << >>
        /\ calls = 0

C11_Witness ==
    /\ MainRan
    /\ proc.argv.json = "object"
    /\ env.backend = "load_fails"
    /\ PrintedError
    /\ proc.exit_code = 1

\* C12: a list that holds an element that is not a string is rejected with
\* a structured error before the embedder or the clusterer is invoked.
C12_NonStringRejected ==
    (MainRan /\ env.backend = "ok" /\ proc.argv.json = "array"
        /\ HasNonString(proc.argv.items)) =>
        /\ PrintedError
        /\ proc.exit_code # 0
        /\ ~AdapterInvoked

\* C13: when fit_transform raises, the call fails as a whole: no result is
\* returned or printed, the exit status is non-zero, encode is not invoked,
\* and fit_transform was tried once.
FitRaised ==
    /\ MainRan
    /\ env.backend = "ok"
    /\ proc.argv.json = "array"
    /\ Len(proc.argv.items) >= 2
    /\ Raises(fit)

C13_ClusteringFailureIsFatal ==
    FitRaised =>
        /\ IsException(result)
        /\ proc.stdout = << >>
        /\ proc.exit_code # 0
        /\ \A i \in 1..Len(log) : log[i].op # "encode"
        /\ Cardinality({i \in 1..Len(log) : log[i].op = "fit_transform"}) = 1
        /\ ~is_fitted

C13_Witness ==
    /\ FitRaised
    /\ ~HasNonString(proc.argv.items)
    /\ result = Exception("fit_transform")
    /\ log[Len(log)] = Event("fit_transform", proc.argv.items)

\* C14: when the embedding backend cannot be loaded, main still prints a
\* result, with one zero-vector per message.
C14_DegradedResult ==
    (Exited /\ env.backend # "ok" /\ proc.argv.json = "array") =>
        /\ proc.exit_code = 0
        /\ Len(proc.stdout) = 1
        /\ "result" \in DOMAIN proc.stdout[1]
        /\ Len(proc.stdout[1].result.embeddings) = Len(proc.argv.items)
        /\ \A i \in 1..Len(proc.argv.items) :
              \A k \in DOMAIN proc.stdout[1].result.embeddings[i] :
                  proc.stdout[1].result.embeddings[i][k] = 0

----------------------------------------------------------------------------
(* Claims about repeated calls *)

\* the events the step added to the log
NewEvents == SubSeq(log', Len(log) + 1, Len(log'))

FitEvents(events) == {i \in 1..Len(events) : events[i].op = "fit_transform"}

\* C15: a second call on the same detector with the same messages and the
\* same clusterer answer returns what the first call returned.
C15_Idempotent ==
    [][(calls >= 1 /\ calls' = calls + 1 /\ messages' = messages /\ fit' = fit)
          => result' = result]_vars

C15_Witness ==
    /\ calls = 2
    /\ Returned
    /\ is_fitted
    /\ Len(messages) >= 2
    /\ \E c \in DOMAIN result.topic_labels : TRUE
    /\ \E i, j \in FitEvents(log) : i < j /\ log[i].texts = messages /\ log[j].texts = messages

\* C16: a call with fewer than 2 messages invokes encode on the messages
\* and nothing else, and leaves is_fitted as it was; a call with 2 or more
\* invokes fit_transform once, on exactly the messages.
C16_ClustererBypass ==
    [][calls' = calls + 1 =>
          IF Len(messages') < 2
          THEN /\ NewEvents = <<Event("encode", messages')>>
               /\ is_fitted' = is_fitted
          ELSE /\ Cardinality(FitEvents(NewEvents)) = 1
               /\ \A i \in FitEvents(NewEvents) : NewEvents[i].texts = messages']_vars

C16_Witness ==
    /\ calls = 2
    /\ Len(messages) = 1
    /\ is_fitted
    /\ Returned
    /\ log[Len(log)] = Event("encode", messages)
    /\ Cardinality(FitEvents(log)) = 1

\* C17 as stated: each model instance is created lazily on first use, at
\* most once, and nothing but the instances is carried between calls.
\* (the detector a later call starts from is then the one the constructor left)
Logged(op) == {i \in 1..Len(log) : log[i].op = op}

FitReturned ==
    \E i \in FitEvents(log) :
        i < Len(log) /\ log[i + 1] = Event("encode", log[i].texts)

C18_UnlabelledIsGENRL ==
    (calls >= 1 /\ Len(messages) >= 2 /\ ~Raises(fit)) =>
        /\ Returned
        /\ \A i \in 1..Len(messages) :
              (result.topics[i] # OUTLIER
                  /\ result.topics[i] \notin DOMAIN result.topic_labels)
              => result.topic_codes[i] = "GENRL"

C18_Witness ==
    /\ Returned
    /\ Len(messages) >= 2
    /\ \E i, j \in 1..Len(messages) :
          /\ result.topics[i] # OUTLIER
          /\ result.topics[i] \notin DOMAIN result.topic_labels
          /\ result.topic_codes[i] = "GENRL"
          /\ result.topics[j] \in DOMAIN result.topic_labels
          /\ result.topic_codes[j] = "MONEY"

\* C19: the embeddings of a result are those any other clusterer answer to
\* the same messages would have given.
OtherAnswers(msgs) ==
    {AllOutliers(Len(msgs)),
     [topics |-> [i \in 1..Len(msgs) |-> 0], words |-> (0 :> <<w_rent, w_payment>>)]}

C19_EmbeddingsIgnoreClustering ==
    Returned =>
        \A f \in OtherAnswers(messages) :
            CallResult(messages, f, env).embeddings = result.embeddings

C19_Witness ==
    /\ Returned
    /\ Len(messages) = MaxCallMsgs
    /\ \E i, j \in 1..Len(messages) :
          /\ fit.topics[i] = OUTLIER
          /\ fit.topics[j] = 1
          /\ messages[i] # messages[j]
    /\ result.embeddings = CallResult(messages, AllOutliers(Len(messages)), env).embeddings

\* C20: is_fitted starts false, turns true exactly when a fit_transform
\* returns, never turns false again, and every call with 2 or more
\* messages fits anew whatever is_fitted is.
C20_FreshFitEveryCall ==
    /\ ~is_fitted
    /\ [][/\ is_fitted => is_fitted'
          /\ (~is_fitted /\ is_fitted') =>
                (calls' = calls + 1 /\ Len(messages') >= 2 /\ ~Raises(fit'))
          /\ (calls' = calls + 1 /\ Len(messages') >= 2) =>
                /\ FitEvents(NewEvents) # {}
                /\ \A i \in FitEvents(NewEvents) : NewEvents[i].texts = messages'
                /\ ~Raises(fit') => is_fitted']_vars

C20_Witness ==
    /\ calls = 2
    /\ is_fitted
    /\ Len(messages) >= 2
    /\ IsException(result)
    /\ Cardinality(FitEvents(log)) = 2

\* C26: in every result, two messages of the same cluster id have the same
\* topic code, and a message of a labelled cluster c other than -1 has the
\* code _map_to_code gives for topic_labels[c].
C26_CodeFollowsCluster ==
    Returned =>
        /\ \A i, j \in 1..Len(messages) :
              result.topics[i] = result.topics[j]
              => result.topic_codes[i] = result.topic_codes[j]
        /\ \A c \in DOMAIN result.topic_labels :
              c # OUTLIER =>
                \A i \in 1..Len(messages) :
                   result.topics[i] = c
                   => result.topic_codes[i] = MapToCode(result.topic_labels[c])

C26_Witness ==
    /\ Returned
    /\ \E i, j, k \in 1..Len(messages) :
          /\ i # j
          /\ result.topics[i] = result.topics[j]
          /\ result.topics[i] \in DOMAIN result.topic_labels
          /\ result.topic_codes[i] = "MONEY"
          /\ result.topic_codes[j] = "MONEY"
          /\ result.topics[k] \in DOMAIN result.topic_labels
          /\ result.topics[k] # result.topics[i]
          /\ result.topic_codes[k] \notin {"MONEY", "GENRL"}

----------------------------------------------------------------------------
(* several topic_detector processes in flight at once *)

MaxInvocations == 3

Invocations == 1..MaxInvocations

\* the batches the processes are started with: one takes the short path,
\* the other reaches the clusterer
Batches == {<<"x">>, <<"Rent payment due", "x">>}

\* no detector built yet
NoModel == 0

Models(inv) == {inv[p].model : p \in DOMAIN inv} \ {NoModel}

\* one detector at module level, handed to every invocation
SharedModel(inv) == 1

\* line 165 and lines 60-66: the process builds a detector, and with it a
\* clusterer instance, that no other process holds
NewModel(inv) == Cardinality(Models(inv)) + 1

TopicIdle ==
    /\ messages = << >>
    /\ fit = AllOutliers(0)
    /\ result = NoResult
    /\ is_fitted = FALSE
    /\ mapcall = NoCall
    /\ log = << >>
    /\ calls = 0
    /\ env = EnvOk
    /\ proc = NoProc

topicVars == <<messages, fit, result, is_fitted, mapcall, log, calls, env, proc>>

InitInvocations ==
    /\ TopicIdle
    /\ invocations \in [Invocations ->
                          [msgs : Batches, pc : {"started"}, model : {NoModel}]]
    /\ graph = Idle
    /\ embed = Idle
    /\ api = Idle
    /\ chunker = Idle
    /\ splitter = Idle
    /\ runner = Idle

Step(p, pc, model) ==
    /\ invocations' = [invocations EXCEPT ![p].pc = pc, ![p].model = model]
    /\ UNCHANGED topicVars
    /\ UNCHANGED <<graph, embed, api, chunker, splitter, runner>>

\* line 165: detector = TopicDetector()
Construct(p) ==
    /\ invocations[p].pc = "started"
    /\ Step(p, "constructed", NewModel(invocations))

\* lines 85-92: fewer than two messages, the clusterer is not invoked
ShortPath(p) ==
    /\ invocations[p].pc = "constructed"
    /\ TooFew(invocations[p].msgs)
    /\ Step(p, "exited", invocations[p].model)

\* line 95: fit_transform is entered
FitStart(p) ==
    /\ invocations[p].pc = "constructed"
    /\ ~TooFew(invocations[p].msgs)
    /\ Step(p, "fitting", invocations[p].model)

\* line 95: fit_transform returns or raises; lines 96-169 run to the exit
FitEnd(p) ==
    /\ invocations[p].pc = "fitting"
    /\ Step(p, "exited", invocations[p].model)

NextInvocations ==
    \E p \in Invocations :
        Construct(p) \/ ShortPath(p) \/ FitStart(p) \/ FitEnd(p)

SpecInvocations == InitInvocations /\ [][NextInvocations]_vars

Fitting(p) == invocations[p].pc = "fitting"

\* C21: with several invocations in flight, no two of them hold the same
\* model instance, so no fit is in progress on an instance while another
\* invocation fits on it.
C21_NoInterleavedFit ==
    \A p, q \in Invocations :
        p # q =>
          /\ (invocations[p].model # NoModel
                => invocations[p].model # invocations[q].model)
          /\ ~(Fitting(p) /\ Fitting(q)
                /\ invocations[p].model = invocations[q].model)

C21_Witness ==
    \E p, q \in Invocations :
        /\ p # q
        /\ Fitting(p)
        /\ Fitting(q)
        /\ invocations[p].model # invocations[q].model

----------------------------------------------------------------------------
(* stream_graph (server/python-tools/langgraph_runner.py) *)

\* the latest reading of the clock during a call
MaxClock == 2

\* a dict is a function from the keys it holds to their values
Dicts(keys, values) == UNION { [D -> values] : D \in SUBSET keys }

StateKeys == {"stage", "timestamp", "input"}

StateValues == {"a", "completed"}

GraphSpecs == Dicts({"name"}, {"g1", "g2"})

\* the three readings of datetime.now() of one call, in the order taken
Clocks == { c \in [1..3 -> 1..MaxClock] : c[1] <= c[2] /\ c[2] <= c[3] }

IsoStrings == <<"2024-01-01T00:00:01", "2024-01-01T00:00:02",
                "2024-01-01T00:00:03", "2024-01-01T00:00:04">>

\* datetime.isoformat()
IsoFormat(t) == IsoStrings[t]

\* dict.get with the default None
Get(d, k) == IF k \in DOMAIN d THEN d[k] ELSE "None"

\* a key of the state kept over the one written by the function
MergeKeepFirst(d, e) ==
    [k \in DOMAIN d \cup DOMAIN e |-> IF k \in DOMAIN d THEN d[k] ELSE e[k]]

\* {**d, k1: v1, k2: v2}: the later entries replace those of d
Merge(d, e) ==
    [k \in DOMAIN d \cup DOMAIN e |-> IF k \in DOMAIN e THEN e[k] ELSE d[k]]

Stages == <<"started", "processing", "completed">>

\* lines 61-67
StreamGraph(graph_spec, initial_state, clock) ==
    [i \in 1..3 |->
        Merge(initial_state,
              [k \in {"stage", "timestamp"} |->
                  IF k = "stage" THEN Stages[i] ELSE IsoFormat(clock[i])])]

InitGraph ==
    /\ TopicIdle
    /\ invocations = Idle
    /\ graph \in [graph_spec : GraphSpecs, initial_state : Dicts(StateKeys, StateValues),
                   clock : Clocks, returned : {<< >>}, stderr : {<< >>}, done : {FALSE}]
    /\ embed = Idle
    /\ api = Idle
    /\ chunker = Idle
    /\ splitter = Idle
    /\ runner = Idle

\* one call of stream_graph, from line 58 to its return
StreamGraphCall ==
    /\ ~graph.done
    /\ graph' = [graph EXCEPT
                    !.stderr = <<[streaming |-> Get(graph.graph_spec, "name")]>>,
                    !.returned = StreamGraph(graph.graph_spec, graph.initial_state,
                                             graph.clock),
                    !.done = TRUE]
    /\ UNCHANGED topicVars
    /\ UNCHANGED <<invocations, embed, api, chunker, splitter, runner>>

NextGraph == StreamGraphCall

SpecGraph == InitGraph /\ [][NextGraph]_vars

\* C22: stream_graph returns three snapshots with the stages started,
\* processing, completed in this order; each holds every key of
\* initial_state with its value, except stage and timestamp, which are
\* written by the function; the snapshots are the same for every graph_spec.
C22_ThreeSnapshots ==
    graph.done =>
        /\ Len(graph.returned) = 3
        /\ graph.returned[1]["stage"] = "started"
        /\ graph.returned[2]["stage"] = "processing"
        /\ graph.returned[3]["stage"] = "completed"
        /\ \A i \in 1..3 :
              /\ DOMAIN graph.initial_state \subseteq DOMAIN graph.returned[i]
              /\ graph.returned[i]["timestamp"] = IsoFormat(graph.clock[i])
              /\ \A k \in DOMAIN graph.initial_state \ {"stage", "timestamp"} :
                    graph.returned[i][k] = graph.initial_state[k]
        /\ \A g \in GraphSpecs :
              StreamGraph(g, graph.initial_state, graph.clock) = graph.returned

C22_Witness ==
    /\ graph.done
    /\ "name" \in DOMAIN graph.graph_spec
    /\ DOMAIN graph.initial_state = StateKeys
    /\ graph.initial_state["stage"] = "completed"
    /\ graph.returned[1]["stage"] = "started"
    /\ graph.returned[1]["input"] = graph.initial_state["input"]
    /\ graph.returned[1]["timestamp"] # graph.initial_state["timestamp"]

----------------------------------------------------------------------------
(* embed_text (mcp-tool-platform-main/server/python-tools/nlp_runner.py) *)

\* the longest "texts" list of a call
MaxTexts == 2

\* the length of a placeholder vector
PlaceholderDim == 384

TextValues == {"", "hi"}

TextLists == UNION { [1..n -> TextValues] : n \in 0..MaxTexts }

\* the args dict: "text" and "texts" each given or left out
EmbedArgs ==
    { [k \in D |-> IF k = "text" THEN a.text ELSE a.texts] :
        D \in SUBSET {"text", "texts"}, a \in [text : TextValues, texts : TextLists] }

\* lines 275-276
InputTexts(args) ==
    LET text == IF "text" \in DOMAIN args THEN args["text"] ELSE ""
    IN  IF "texts" \in DOMAIN args THEN args["texts"]
        ELSE IF text # "" THEN <<text>> ELSE << >>

Zeros(n) == [k \in 1..n |-> 0]

\* one placeholder vector whatever the number of texts
PlaceholderOneVector(texts) ==
    [embeddings |-> <<Zeros(PlaceholderDim)>>, model |-> "unavailable",
     dimensions |-> PlaceholderDim]

\* lines 281-285
Placeholder(texts) ==
    [embeddings |-> [i \in 1..Len(texts) |-> Zeros(PlaceholderDim)],
     model |-> "unavailable", dimensions |-> PlaceholderDim]

\* lines 287-293: the vectors are the model's, opaque here; the model named
\* has PlaceholderDim dimensions
Encoded(texts) ==
    [embeddings |-> [i \in 1..Len(texts) |-> [encoded |-> texts[i]]],
     model |-> "all-MiniLM-L6-v2", dimensions |-> PlaceholderDim]

\* lines 39-48 and 278-293: an ImportError is caught and gives no model,
\* any other failure of the load leaves embed_text
EmbedText(args, backend) ==
    IF backend = "not_installed" THEN Placeholder(InputTexts(args))
    ELSE IF backend = "load_fails" THEN Exception("SentenceTransformer")
    ELSE Encoded(InputTexts(args))

InitEmbed ==
    /\ TopicIdle
    /\ invocations = Idle
    /\ graph = Idle
    /\ embed \in [args : EmbedArgs, backend : Backends, returned : {NoResult}]
    /\ api = Idle
    /\ chunker = Idle
    /\ splitter = Idle
    /\ runner = Idle

EmbedTextCall ==
    /\ embed.returned = NoResult
    /\ embed' = [embed EXCEPT !.returned = EmbedText(embed.args, embed.backend)]
    /\ UNCHANGED topicVars
    /\ UNCHANGED <<invocations, graph, api, chunker, splitter, runner>>

NextEmbed == EmbedTextCall

SpecEmbed == InitEmbed /\ [][NextEmbed]_vars

\* the texts a caller hands over: the "texts" list, else the one non-empty "text"
GivenTexts(args) ==
    IF "texts" \in DOMAIN args THEN Len(args["texts"])
    ELSE IF "text" \in DOMAIN args /\ args["text"] # "" THEN 1 ELSE 0

\* C23: when sentence-transformers cannot be imported, embed_text returns
\* without raising: one vector of 384 zeros per input text, model
\* "unavailable", dimensions 384; also for an empty texts list.
C23_PlaceholderEmbeddings ==
    (embed.returned # NoResult /\ embed.backend = "not_installed") =>
        /\ ~IsException(embed.returned)
        /\ Len(embed.returned.embeddings) = GivenTexts(embed.args)
        /\ \A i \in 1..Len(embed.returned.embeddings) :
              /\ Len(embed.returned.embeddings[i]) = 384
              /\ \A k \in 1..384 : embed.returned.embeddings[i][k] = 0
        /\ embed.returned.model = "unavailable"
        /\ embed.returned.dimensions = 384

C23_Witness ==
    /\ embed.returned # NoResult
    /\ embed.backend = "not_installed"
    /\ "texts" \in DOMAIN embed.args
    /\ embed.args["texts"] = << >>
    /\ embed.returned.embeddings = << >>
    /\ embed.returned.model = "unavailable"

----------------------------------------------------------------------------
(* The Graphiti API service (deploy/cloud-run/graphiti/main.py) *)

\* the search results of a request, the latest instant, the pieces of a header
MaxResults == 2

MaxTime == 2

MaxHeaderParts == 3

BearerPrefix == <<"B", "e", "a", "r", "e", "r", " ">>

HeaderParts == {BearerPrefix, <<"k">>, <<"x">>, <<"b", "e", "a", "r", "e", "r", " ">>}

RECURSIVE Concat(_)
Concat(parts) == IF parts = << >> THEN << >> ELSE Head(parts) \o Concat(Tail(parts))

HeaderTexts == { Concat(ps) : ps \in UNION { [1..n -> HeaderParts] : n \in 0..MaxHeaderParts } }

\* the Authorization header: absent (None), or its text
NoHeader == [given |-> FALSE]

Headers == {NoHeader} \cup { [given |-> TRUE, value |-> h] : h \in HeaderTexts }

\* line 45: the configured key; the empty text when API_KEY is not set
ApiKeys == {<< >>, <<"k">>, <<"k", "x">>, BearerPrefix \o <<"k">>}

\* str.startswith
StartsWith(text, prefix) ==
    /\ Len(text) >= Len(prefix)
    /\ SubSeq(text, 1, Len(prefix)) = prefix

\* str.replace(old, ""): every occurrence of old removed, scanning from the left
RECURSIVE Replace(_, _)
Replace(text, old) ==
    IF Len(text) < Len(old) THEN text
    ELSE IF StartsWith(text, old)
    THEN Replace(SubSeq(text, Len(old) + 1, Len(text)), old)
    ELSE <<Head(text)>> \o Replace(Tail(text), old)

Passed == 0

\* lines 79-87: Passed, or the status of the HTTPException raised
VerifyApiKey(api_key, authorization) ==
    IF api_key = << >> THEN Passed
    ELSE IF ~authorization.given
            \/ authorization.value = << >>
            \/ ~StartsWith(authorization.value, BearerPrefix)
    THEN 401
    ELSE IF Replace(authorization.value, BearerPrefix) # api_key THEN 403
    ELSE Passed

Endpoints == {"/health", "/entity/add", "/entity/search", "/entity/timeline",
              "/relationship/add", "/detect/contradictions", "/query/as_of"}

\* the created_at of a search result: no such attribute, None, or a datetime
\* that carries a UTC offset (aware) or none
Absent == [kind |-> "absent"]

NoneValue == [kind |-> "none"]

DateTime(t, aware) == [kind |-> "datetime", t |-> t, aware |-> aware]

DateTimes == { DateTime(t, a) : t \in 1..MaxTime, a \in BOOLEAN }

SearchResults ==
    UNION { [1..n -> [created_at : {Absent, NoneValue} \cup DateTimes]] : n \in 0..MaxResults }

\* as_of_date after line 296: a text fromisoformat rejects, or the datetime read
Unparsable == [kind |-> "invalid"]

IsDateTime(v) == v.kind = "datetime"

\* datetime.isoformat(): the offset is written when the datetime carries one
IsoOf(dt) == [iso |-> IsoFormat(dt.t), offset |-> dt.aware]

\* an HTTPException, by its status code
HttpError(status, client) ==
    [status |-> status, response |-> [detail |-> "error"], client |-> client]

Ok(response) == [status |-> 200, response |-> response, client |-> "initialised"]

\* every result that has a datetime, whatever the date asked for
KeptAnyDate(results, as_of) ==
    SelectSeq(results, LAMBDA r : IsDateTime(r.created_at))

\* lines 306-308: the results the loop of query_as_of keeps
Kept(results, as_of) ==
    SelectSeq(results, LAMBDA r : IsDateTime(r.created_at) /\ r.created_at.t <= as_of.t)

\* line 308: comparing a datetime that carries an offset with one that
\* carries none raises TypeError
CompareRaises(results, as_of) ==
    \E i \in 1..Len(results) :
        /\ IsDateTime(results[i].created_at)
        /\ results[i].created_at.aware # as_of.aware

\* lines 296-324, the client at hand
QueryAsOf(results, as_of) ==
    IF ~IsDateTime(as_of) THEN HttpError(500, "initialised")
    ELSE IF CompareRaises(results, as_of) THEN HttpError(500, "initialised")
    ELSE LET kept == Kept(results, as_of)
         IN  Ok([results |-> [i \in 1..Len(kept) |->
                                 [timestamp |-> IsoOf(kept[i].created_at)]],
                 count |-> Len(kept)])

\* lines 194-217, the client at hand: start_date and end_date are not read;
\* a created_at of None has no isoformat
GetEntityTimeline(results, start_date, end_date) ==
    IF \E i \in 1..Len(results) : results[i].created_at = NoneValue
    THEN HttpError(500, "initialised")
    ELSE Ok([timeline |-> [i \in 1..Len(results) |->
                             [timestamp |-> IF results[i].created_at = Absent
                                            THEN NoneValue
                                            ELSE IsoOf(results[i].created_at)]],
             count |-> Len(results)])

\* a request from its arrival at the handler to the response
Respond(a) ==
    IF a.endpoint = "/health"
    THEN [status |-> 200, response |-> [status |-> "healthy"], client |-> "untouched"]
    ELSE IF VerifyApiKey(a.api_key, a.authorization) # Passed
    THEN HttpError(VerifyApiKey(a.api_key, a.authorization), "untouched")
    ELSE IF a.backend = "down" THEN HttpError(500, "failed")
    ELSE IF a.endpoint = "/entity/timeline"
    THEN GetEntityTimeline(a.results, a.start_date, a.end_date)
    ELSE IF a.endpoint = "/query/as_of" THEN QueryAsOf(a.results, a.as_of_date)
    ELSE Ok([success |-> TRUE])

Unanswered == [status : {0}, response : {NoResult}, client : {"untouched"}]

\* requests that differ in the endpoint, the configured key and the header
AuthRequests ==
    [endpoint : Endpoints, api_key : ApiKeys, authorization : Headers,
     start_date : {NoneValue}, end_date : {NoneValue},
     as_of_date : {DateTime(1, FALSE)}, results : {<< >>},
     backend : {"ok", "down"}, answer : Unanswered]

\* requests to the two endpoints that take dates, no key configured
DateRequests ==
    [endpoint : {"/entity/timeline"}, api_key : {<< >>}, authorization : {NoHeader},
     start_date : {NoneValue} \cup {DateTime(t, FALSE) : t \in 1..MaxTime},
     end_date : {NoneValue} \cup {DateTime(t, FALSE) : t \in 1..MaxTime},
     as_of_date : {DateTime(1, FALSE)}, results : SearchResults,
     backend : {"ok"}, answer : Unanswered]
    \cup
    [endpoint : {"/query/as_of"}, api_key : {<< >>}, authorization : {NoHeader},
     start_date : {NoneValue}, end_date : {NoneValue},
     as_of_date : {Unparsable} \cup DateTimes, results : SearchResults,
     backend : {"ok"}, answer : Unanswered]

InitApi ==
    /\ TopicIdle
    /\ invocations = Idle
    /\ graph = Idle
    /\ embed = Idle
    /\ api \in AuthRequests \cup DateRequests
    /\ chunker = Idle
    /\ splitter = Idle
    /\ runner = Idle

HandleRequest ==
    /\ api.answer.status = 0
    /\ api' = [api EXCEPT !.answer = Respond(api)]
    /\ UNCHANGED topicVars
    /\ UNCHANGED <<invocations, graph, embed, chunker, splitter, runner>>

NextApi == HandleRequest

SpecApi == InitApi /\ [][NextApi]_vars

Answered(endpoint) == api.endpoint = endpoint /\ api.answer.status # 0

\* the instant an ISO text names
TimeOf(iso) == CHOOSE t \in 1..Len(IsoStrings) : IsoStrings[t] = iso

NotLater == { i \in 1..Len(api.results) :
                /\ IsDateTime(api.results[i].created_at)
                /\ api.results[i].created_at.t <= api.as_of_date.t }

\* C24: every entry /query/as_of returns has a timestamp, not later than
\* as_of_date; there are as many entries as search results with such a
\* timestamp, so none with a later or a missing one is returned; count is
\* the number of entries returned.
C24_AsOfFilter ==
    (Answered("/query/as_of") /\ api.answer.status = 200) =>
        /\ \A i \in 1..Len(api.answer.response.results) :
              TimeOf(api.answer.response.results[i].timestamp.iso) <= api.as_of_date.t
        /\ Len(api.answer.response.results) = Cardinality(NotLater)
        /\ api.answer.response.count = Len(api.answer.response.results)

C24_Witness ==
    /\ Answered("/query/as_of")
    /\ api.answer.status = 200
    /\ \E i, j \in 1..Len(api.results) :
          /\ IsDateTime(api.results[i].created_at)
          /\ api.results[i].created_at.t > api.as_of_date.t
          /\ IsDateTime(api.results[j].created_at)
          /\ api.results[j].created_at.t <= api.as_of_date.t
    /\ api.answer.response.count = 1

InRange(t) ==
    /\ IsDateTime(api.start_date) => api.start_date.t <= t
    /\ IsDateTime(api.end_date) => t <= api.end_date.t

\* C25: when start_date or end_date is given to /entity/timeline, every
\* entry of the returned timeline has a timestamp within the range.
C25_TimelineInRange ==
    (Answered("/entity/timeline") /\ api.answer.status = 200
        /\ (IsDateTime(api.start_date) \/ IsDateTime(api.end_date))) =>
        \A i \in 1..Len(api.answer.response.timeline) :
            /\ api.answer.response.timeline[i].timestamp # NoneValue
            /\ InRange(TimeOf(api.answer.response.timeline[i].timestamp.iso))

\* C29: with a key configured, an endpoint other than /health answers a
\* request whose Authorization header is not "Bearer " followed by the key
\* without touching the client: 401 when the header is missing or does not
\* start with "Bearer ", 403 otherwise; with no key configured no request
\* is answered 401 or 403.
C29_ExactBearerToken ==
    (api.answer.status # 0 /\ api.endpoint # "/health") =>
        IF api.api_key = << >> THEN api.answer.status \notin {401, 403}
        ELSE IF api.authorization.given
                /\ api.authorization.value = BearerPrefix \o api.api_key
        THEN TRUE
        ELSE /\ api.answer.client = "untouched"
             /\ api.answer.status =
                   IF ~api.authorization.given
                      \/ ~StartsWith(api.authorization.value, BearerPrefix)
                   THEN 401 ELSE 403

----------------------------------------------------------------------------
(* UnstructuredParser._simple_chunk (server/python-tools/unstructured_parser.py) *)

MaxTextLen == 4

MaxChunkSize == 3

\* the loop is followed for this many iterations, more than any text needs
\* when start advances
MaxIterations == MaxTextLen + 2

ChunkTexts == UNION { [1..n -> {"a", "b"}] : n \in 0..MaxTextLen }

\* a slice index as Python reads it: counted from the end when negative,
\* then brought into 0..n
SliceIndex(k, n) ==
    IF k < 0 THEN (IF k + n < 0 THEN 0 ELSE k + n)
    ELSE IF k > n THEN n ELSE k

\* text[i:j]
Slice(text, i, j) ==
    LET a == SliceIndex(i, Len(text))
        b == SliceIndex(j, Len(text))
    IN  IF a < b THEN SubSeq(text, a + 1, b) ELSE << >>

\* the overlap forgotten: the next chunk starts where this one ends
NextStartAtEnd(end, chunk_overlap) == end

\* line 267: start = end - chunk_overlap
NextStart(end, chunk_overlap) == end - chunk_overlap

InitChunk ==
    /\ TopicIdle
    /\ invocations = Idle
    /\ graph = Idle
    /\ embed = Idle
    /\ api = Idle
    /\ chunker \in [text : ChunkTexts, chunk_size : 0..MaxChunkSize,
                     chunk_overlap : -1..MaxChunkSize,
                     start : {0}, index : {0}, chunks : {<< >>}, returned : {FALSE}]
    /\ splitter = Idle
    /\ runner = Idle

\* lines 253-268: one iteration of the while loop
ChunkStep ==
    /\ ~chunker.returned
    /\ chunker.start < Len(chunker.text)
    /\ chunker.index < MaxIterations
    /\ LET end == chunker.start + chunker.chunk_size
       IN  chunker' = [chunker EXCEPT
               !.chunks = Append(@, [index |-> chunker.index,
                                     text |-> Slice(chunker.text, chunker.start, end),
                                     start_offset |-> chunker.start,
                                     end_offset |-> end]),
               !.start = NextStart(end, chunker.chunk_overlap),
               !.index = @ + 1]
    /\ UNCHANGED topicVars
    /\ UNCHANGED <<invocations, graph, embed, api, splitter, runner>>

\* lines 253 and 270: the loop condition fails, the chunks are returned
ChunkReturn ==
    /\ ~chunker.returned
    /\ chunker.start >= Len(chunker.text)
    /\ chunker' = [chunker EXCEPT !.returned = TRUE]
    /\ UNCHANGED topicVars
    /\ UNCHANGED <<invocations, graph, embed, api, splitter, runner>>

NextChunk == ChunkStep \/ ChunkReturn

SpecChunk == InitChunk /\ [][NextChunk]_vars

\* the interpreter keeps running the loop
SpecChunkFair == SpecChunk /\ WF_vars(NextChunk)

Advancing == 0 <= chunker.chunk_overlap /\ chunker.chunk_overlap < chunker.chunk_size

Stuck == chunker.chunk_overlap >= chunker.chunk_size /\ Len(chunker.text) > 0

\* every character of the text is in a chunk, at its place
Covered ==
    \A pos \in 1..Len(chunker.text) :
        \E i \in 1..Len(chunker.chunks) :
            LET c == chunker.chunks[i]
            IN  /\ c.start_offset < pos
                /\ pos <= c.start_offset + Len(c.text)
                /\ c.text[pos - c.start_offset] = chunker.text[pos]

\* C27: with 0 <= chunk_overlap < chunk_size the loop ends, every iteration
\* moves start forward by chunk_size - chunk_overlap, and the chunks returned
\* cover every character and are numbered 0, 1, 2, ... in order; with
\* chunk_overlap >= chunk_size and a non-empty text start never increases,
\* the loop condition stays true and nothing is returned.
C27_SimpleChunkTermination ==
    /\ (Advancing ~> chunker.returned)
    /\ [][(Advancing /\ chunker'.index # chunker.index)
            => /\ chunker'.start = chunker.start
                                   + (chunker.chunk_size - chunker.chunk_overlap)
               /\ chunker'.start > chunker.start]_vars
    /\ []((Advancing /\ chunker.returned)
            => /\ Covered
               /\ \A i \in 1..Len(chunker.chunks) : chunker.chunks[i].index = i - 1)
    /\ [][Stuck => chunker'.start <= chunker.start]_vars
    /\ [](Stuck => (chunker.start < Len(chunker.text) /\ ~chunker.returned))

C27_Witness ==
    /\ Advancing
    /\ chunker.returned
    /\ chunker.chunk_overlap > 0
    /\ Len(chunker.chunks) >= 3
    /\ chunker.chunks[2].start_offset > 0
    /\ chunker.chunks[2].start_offset < chunker.chunks[1].end_offset

----------------------------------------------------------------------------
(* ConversationSplitter.split
   (mcp-tool-platform-main/utilities/scripts/conversation_splitter.py) *)

MaxConvs == 4

MaxPerChunk == 3

ConversationLists == UNION { [1..n -> {"c1", "c2"}] : n \in 0..MaxConvs }

\* f"{n:04d}": the decimal digits of n, padded with zeros to four
Digits4(n) == <<(n \div 1000) % 10, (n \div 100) % 10, (n \div 10) % 10, n % 10>>

\* the chunks counted by whole groups only
TotalChunksFloor(total_convs, convs_per_chunk) == total_convs \div convs_per_chunk

\* line 40
TotalChunks(total_convs, convs_per_chunk) ==
    (total_convs + convs_per_chunk - 1) \div convs_per_chunk

\* lines 42-49: the files written, in the order written; a chunk of a list
\* input is a list, a chunk of a dict input is wrapped in a dict
WrittenFiles(conversations, convs_per_chunk, wrapped) ==
    [c \in 1..TotalChunks(Len(conversations), convs_per_chunk) |->
        LET start_idx == (c - 1) * convs_per_chunk
            end_idx == Min({start_idx + convs_per_chunk, Len(conversations)})
        IN  [name |-> Digits4(c),
             wrapped |-> wrapped,
             conversations |-> SubSeq(conversations, start_idx + 1, end_idx)]]

\* the input file holds a list, a dict with "conversations", or neither;
\* convs_per_chunk is what the caller passed, zero included
InitSplit ==
    /\ TopicIdle
    /\ invocations = Idle
    /\ graph = Idle
    /\ embed = Idle
    /\ api = Idle
    /\ chunker = Idle
    /\ splitter \in [form : {"list", "dict", "other"}, conversations : ConversationLists,
                      convs_per_chunk : 0..MaxPerChunk, files : {<< >>},
                      outcome : {"pending"}]
    /\ runner = Idle

\* split, from line 28 to its return or to the exception that leaves it
SplitCall ==
    /\ splitter.outcome = "pending"
    /\ splitter' =
          IF splitter.form = "other"
          THEN [splitter EXCEPT !.outcome = "ValueError"]
          ELSE IF splitter.convs_per_chunk = 0
          THEN [splitter EXCEPT !.outcome = "ZeroDivisionError"]
          ELSE [splitter EXCEPT
                  !.files = WrittenFiles(splitter.conversations, splitter.convs_per_chunk,
                                         splitter.form = "dict"),
                  !.outcome = "returned"]
    /\ UNCHANGED topicVars
    /\ UNCHANGED <<invocations, graph, embed, api, chunker, runner>>

NextSplit == SplitCall

SpecSplit == InitSplit /\ [][NextSplit]_vars

\* the least number of groups of k that hold n items
Ceil(n, k) == CHOOSE c \in 0..n : c * k >= n /\ (c = 0 \/ (c - 1) * k < n)

NumberOf(name) == name[1] * 1000 + name[2] * 100 + name[3] * 10 + name[4]

\* C28: for a list of n conversations and k >= 1, split writes ceil(n/k)
\* chunks numbered from 1, each non-empty and of at most k conversations,
\* and the chunks in number order, put end to end, are the original list.
C28_SplitPartition ==
    (splitter.outcome # "pending" /\ splitter.form # "other"
        /\ splitter.convs_per_chunk >= 1) =>
        /\ splitter.outcome = "returned"
        /\ Len(splitter.files) = Ceil(Len(splitter.conversations), splitter.convs_per_chunk)
        /\ \A c \in 1..Len(splitter.files) :
              /\ NumberOf(splitter.files[c].name) = c
              /\ Len(splitter.files[c].conversations) >= 1
              /\ Len(splitter.files[c].conversations) <= splitter.convs_per_chunk
        /\ Concat([c \in 1..Len(splitter.files) |-> splitter.files[c].conversations])
              = splitter.conversations

C28_Witness ==
    /\ splitter.outcome = "returned"
    /\ splitter.convs_per_chunk = 3
    /\ splitter.conversations = <<"c1", "c2", "c2", "c1">>
    /\ Len(splitter.files) = 2
    /\ splitter.files[2].conversations = <<"c1">>

----------------------------------------------------------------------------
(* The command runners: nlp_runner.py, graphiti_runner.py, langgraph_runner.py *)

\* the arguments after the script name
MaxRunnerArgs == 3

\* nlp_runner.py lines 331-340: COMMANDS
NlpCommands == {"detect_language", "extract_entities", "extract_keywords",
                "analyze_sentiment", "split_sentences", "generate_outline",
                "embed_text", "classify_text"}

\* graphiti_runner.py lines 207-218
GraphitiCommands == {"add_entity", "add_relationship", "search_entities",
                     "get_entity_timeline", "detect_contradictions", "query_as_of"}

\* langgraph_runner.py lines 87-91
LanggraphCommands == {"execute_graph", "stream_graph"}

CommandNames == NlpCommands \cup GraphitiCommands \cup LanggraphCommands \cup {"bogus"}

JsonTexts == {"{}", "not json"}

\* json.loads accepts the text
IsJson(text) == text = "{}"

\* sys.argv[1:]: a command name, then texts meant as JSON
RunnerArgs ==
    UNION { { a \in [1..n -> CommandNames \cup JsonTexts] :
                \A i \in 1..n : (i = 1) = (a[i] \in CommandNames) }
            : n \in 0..MaxRunnerArgs }

\* what a run leaves: the lines on stdout, the exit status, the command
\* handler that ran (NoHandler when none did)
NoHandler == "none"

Outcome(stdout, exit_code, handler) ==
    [stdout |-> stdout, exit_code |-> exit_code, handler |-> handler]

\* an exception nothing catches: a traceback on stderr, status 1
Traceback == Outcome(<< >>, 1, NoHandler)

\* nlp_runner.py lines 343-371
NlpMain(args, handler_raises) ==
    IF Len(args) < 1
    THEN Outcome(<<[error |-> "No command specified"]>>, 1, NoHandler)
    ELSE IF args[1] \notin NlpCommands
    THEN Outcome(<<[error |-> "Unknown command"]>>, 1, NoHandler)
    ELSE IF handler_raises
    THEN Outcome(<<[error |-> "exception", command |-> args[1]]>>, 1, args[1])
    ELSE Outcome(<<[result |-> args[1]]>>, 0, args[1])

\* graphiti_runner.py lines 195-232
GraphitiMain(args, handler_raises) ==
    IF Len(args) < 2
    THEN Outcome(<<[success |-> FALSE, error |-> "Usage"]>>, 1, NoHandler)
    ELSE IF ~IsJson(args[2]) THEN Traceback
    ELSE IF args[1] \notin GraphitiCommands
    THEN Outcome(<<[success |-> TRUE, data |-> [error |-> "Unknown command"]]>>,
                 0, NoHandler)
    ELSE IF handler_raises
    THEN Outcome(<<[success |-> FALSE, error |-> "exception"]>>, 1, args[1])
    ELSE Outcome(<<[success |-> TRUE, data |-> [result |-> args[1]]]>>, 0, args[1])

\* langgraph_runner.py lines 70-98
LanggraphMain(args, handler_raises) ==
    IF Len(args) < 3
    THEN Outcome(<<[error |-> "Usage"]>>, 1, NoHandler)
    ELSE IF ~IsJson(args[2]) \/ ~IsJson(args[3]) THEN Traceback
    ELSE IF args[1] \notin LanggraphCommands
    THEN Outcome(<<[error |-> "Unknown command"]>>, 1, NoHandler)
    ELSE IF handler_raises THEN Outcome(<< >>, 1, args[1])
    ELSE Outcome(<<[result |-> args[1]]>>, 0, args[1])

Running == [stdout : {<< >>}, exit_code : {0}, handler : {NoHandler}]

InitRunner ==
    /\ TopicIdle
    /\ invocations = Idle
    /\ graph = Idle
    /\ embed = Idle
    /\ api = Idle
    /\ chunker = Idle
    /\ splitter = Idle
    /\ runner \in [script : {"nlp_runner", "graphiti_runner", "langgraph_runner"},
                    args : RunnerArgs, handler_raises : BOOLEAN,
                    exited : {FALSE}, outcome : Running]

Run(script, outcome) ==
    /\ runner.script = script
    /\ ~runner.exited
    /\ runner' = [runner EXCEPT !.exited = TRUE, !.outcome = outcome]
    /\ UNCHANGED topicVars
    /\ UNCHANGED <<invocations, graph, embed, api, chunker, splitter>>

NlpRun == Run("nlp_runner", NlpMain(runner.args, runner.handler_raises))

GraphitiRun == Run("graphiti_runner", GraphitiMain(runner.args, runner.handler_raises))

LanggraphRun == Run("langgraph_runner", LanggraphMain(runner.args, runner.handler_raises))

NextRunner == NlpRun \/ GraphitiRun \/ LanggraphRun

SpecRunner == InitRunner /\ [][NextRunner]_vars

KnownCommands(script) ==
    IF script = "nlp_runner" THEN NlpCommands
    ELSE IF script = "graphiti_runner" THEN GraphitiCommands
    ELSE LanggraphCommands

\* C30: a runner given a command name it does not know exits with a
\* non-zero status, runs no command handler and prints no line that
\* reports success.
C30_UnknownCommandIsError ==
    (runner.exited /\ Len(runner.args) >= 1
        /\ runner.args[1] \notin KnownCommands(runner.script)) =>
        /\ runner.outcome.exit_code # 0
        /\ runner.outcome.handler = NoHandler
        /\ \A i \in 1..Len(runner.outcome.stdout) :
              "success" \in DOMAIN runner.outcome.stdout[i]
              => ~runner.outcome.stdout[i].success

====
